---- MODULE Spec2Model ----
(***************************************************************************)
(* Model of the scrobble service (core/background/object/scrobble-service) *)
(* and of the batch chunking of the base scrobbler                         *)
(* (core/background/scrobbler/base-scrobbler).                             *)
(*                                                                         *)
(* JavaScript runs the service on one thread: every action below is one    *)
(* run-to-completion step (the synchronous part of a call, or the          *)
(* continuation that runs when an awaited promise settles).                *)
(***************************************************************************)
EXTENDS Integers, Sequences, FiniteSets, TLC

\* ------------------------------------------------------------------ bounds
\* Number of scrobbler calls the dispatches issue (a dispatch that has no
\* scrobbler to call counts as one).
MaxCalls == 3
\* Number of bindScrobbler/unbindScrobbler calls made by the service's users.
MaxOps == 1
\* Number of bindAllScrobblers calls.
MaxBindAll == 1
\* Number of songs given to a scrobbler's scrobbleBatch, and the largest
\* getMaxTrackCountToScrobble() of a scrobbler.
MaxSongs == 4
MaxChunkSize == 3
\* Number of dispatches with calls in flight at the same time.
MaxInFlight == 2
\* The same, in the behaviours checked for liveness.
MaxLiveInFlight == 1

\* --------------------------------------------------------------- scrobblers
\* The three instances created at module load, in registration order.
registeredScrobblers == <<"lastfm", "librefm", "listenbrainz">>

\* A scrobbler object that is not one of the registered instances but
\* answers getLabel() like the registered Last.fm instance.
OtherInstance == "lastfm-other"

Instances == {registeredScrobblers[i] : i \in 1..Len(registeredScrobblers)}
                 \cup {OtherInstance}

\* The scrobbler IDs are unique.
getId(s) ==
    CASE s = "lastfm" -> "lastfm"
      [] s = OtherInstance -> "lastfm"
      [] s = "librefm" -> "librefm"
      [] s = "listenbrainz" -> "listenbrainz"

getLabel(s) ==
    CASE s = "lastfm" -> "Last.fm"
      [] s = OtherInstance -> "Last.fm"
      [] s = "librefm" -> "Libre.fm"
      [] s = "listenbrainz" -> "ListenBrainz"

\* The capability flags of the registered scrobblers: false in the base
\* scrobbler, overridden to true by a service that supports the request.
\* One scrobbler can love songs; two that are not neighbours in
\* registeredScrobblers can load song info.
canLoveSong(s) == s = "lastfm"
canLoadSongInfo(s) == s \in {"lastfm", "listenbrainz"}

\* ServiceCallResult constants.
RESULT_OK == "ok"
RESULT_IGNORE == "ignored"
ERROR_AUTH == "error-auth"
ERROR_OTHER == "error-other"

\* ------------------------------------------------------------ array helpers
Range(seq) == {seq[i] : i \in 1..Len(seq)}

\* Array.prototype.indexOf: zero-based index of the first element that is
\* the same object, -1 when there is none.
IndexOf(array, x) ==
    IF \E i \in 1..Len(array) : array[i] = x
    THEN (CHOOSE i \in 1..Len(array) :
              array[i] = x /\ \A j \in 1..(i - 1) : array[j] # x) - 1
    ELSE -1

\* Array.prototype.splice(index, 1): a negative index counts from the end.
Splice1(array, index) ==
    LET start == IF index < 0
                 THEN (IF Len(array) + index < 0 THEN 0 ELSE Len(array) + index)
                 ELSE (IF index > Len(array) THEN Len(array) ELSE index)
    IN  IF start >= Len(array)
        THEN array
        ELSE SubSeq(array, 1, start) \o SubSeq(array, start + 2, Len(array))

isScrobblerInArray(scrobbler, array) ==
    \E i \in 1..Len(array) : getLabel(array[i]) = getLabel(scrobbler)

\* Mutant of bindScrobblerArray: the scrobbler is pushed without the test.
bindScrobblerArray_AlwaysPush(scrobbler, array) == Append(array, scrobbler)

\* bindScrobbler: the array after the call and the console line it prints.
bindScrobblerArray(scrobbler, array) ==
    IF ~isScrobblerInArray(scrobbler, array)
    THEN Append(array, scrobbler)
    ELSE array

bindScrobblerLog(scrobbler, array) ==
    IF ~isScrobblerInArray(scrobbler, array) THEN "log:bind" ELSE "none"

\* Mutants of unbindScrobblerArray: the last element is removed instead of
\* the scrobbler's; the splice is made without the test.
unbindScrobblerArray_Pop(scrobbler, array) ==
    IF isScrobblerInArray(scrobbler, array)
    THEN Splice1(array, Len(array) - 1)
    ELSE array

unbindScrobblerArray_NoTest(scrobbler, array) ==
    Splice1(array, IndexOf(array, scrobbler))

\* unbindScrobbler: the array after the call and the console line it prints.
unbindScrobblerArray(scrobbler, array) ==
    IF isScrobblerInArray(scrobbler, array)
    THEN Splice1(array, IndexOf(array, scrobbler))
    ELSE array

unbindScrobblerLog(scrobbler, array) ==
    IF isScrobblerInArray(scrobbler, array)
    THEN "log:unbind"
    ELSE "error:not-bound"


\* ------------------------------------------------------------------- state
VARIABLES
    boundScrobblers,  \* the module-level array of bound scrobblers
    dispatches,       \* the dispatches with calls in flight, in start order
    bindAll,          \* the bindAllScrobblers call in flight (loop position)
    calls,            \* number of scrobbler calls the dispatches issued
    bindAlls,         \* number of bindAllScrobblers calls so far
    ops,              \* number of bindScrobbler/unbindScrobbler calls so far
    last,             \* what the last step did: the change it asked of
                      \* boundScrobblers, the console line, the value returned
    batch             \* one call of a scrobbler's own scrobbleBatch

serviceVars ==
    <<boundScrobblers, dispatches, bindAll, calls, bindAlls, ops, last>>

vars == <<serviceVars, batch>>

Registered == Range(registeredScrobblers)

\* A dispatch: the operation, the scrobblers it called (in call order), how
\* often it called each, what each call settled with, the state of each call
\* after its catch handler, the state of its Promise.all; and, once it
\* returns, the value or the error the caller gets.
\* A batch dispatch also has what each scrobbler's scrobbleBatch resolved
\* with (reports) and the erroredScrobbles object of the call.
NoDispatch ==
    [op |-> "none", scrobblers |-> <<>>, issued |-> <<>>, outcome |-> <<>>,
     st |-> <<>>, reports |-> <<>>, erroredScrobbles |-> {},
     status |-> "none", value |-> <<>>, error |-> "none"]

BindAllIdle ==
    [pc |-> "idle", i |-> 0, attempted |-> <<>>, succeeded |-> {},
     alone |-> FALSE, returned |-> <<>>]

NoChange ==
    [op |-> "none", scrobbler |-> "none", result |-> "none",
     isReady |-> "none", handled |-> "none", before |-> <<>>, log |-> "none",
     started |-> NoDispatch, returned |-> NoDispatch,
     bindAllReturned |-> BindAllIdle]

\* A call of BaseScrobbler.scrobbleBatch: the songs (their indices in
\* songInfoArray), the chunks, the state of each chunk's request, what each
\* request rejected with, how often each chunk was submitted, the results
\* array, and what the call settled with.
BatchIdle(songs, maxChunkSize) ==
    [pc |-> "idle", songs |-> songs, maxChunkSize |-> maxChunkSize,
     chunks |-> <<>>, st |-> <<>>, rejectedWith |-> <<>>, submitted |-> <<>>,
     results |-> <<>>, value |-> <<>>, error |-> "none"]

InitService ==
    /\ boundScrobblers = <<>>
    /\ dispatches = <<>>
    /\ bindAll = BindAllIdle
    /\ calls = 0
    /\ bindAlls = 0
    /\ ops = 0
    /\ last = NoChange

Init ==
    /\ InitService
    /\ batch = BatchIdle(<<>>, 1)

\* A bind/unbind made by somebody else while bindAllScrobblers is suspended.
Interleaved == [bindAll EXCEPT !.alone = FALSE]

\* ---------------------------------------------------- bindScrobbler (65-70)
bindScrobbler(scrobbler) ==
    /\ ops < MaxOps
    /\ ops' = ops + 1
    /\ boundScrobblers' = bindScrobblerArray(scrobbler, boundScrobblers)
    /\ last' = [NoChange EXCEPT
                   !.op = "bind", !.scrobbler = scrobbler,
                   !.before = boundScrobblers,
                   !.log = bindScrobblerLog(scrobbler, boundScrobblers)]
    /\ bindAll' = Interleaved
    /\ UNCHANGED <<batch, dispatches, calls, bindAlls>>

\* -------------------------------------------------- unbindScrobbler (76-85)
unbindScrobbler(scrobbler) ==
    /\ ops < MaxOps
    /\ ops' = ops + 1
    /\ boundScrobblers' = unbindScrobblerArray(scrobbler, boundScrobblers)
    /\ last' = [NoChange EXCEPT
                   !.op = "unbind", !.scrobbler = scrobbler,
                   !.before = boundScrobblers,
                   !.log = unbindScrobblerLog(scrobbler, boundScrobblers)]
    /\ bindAll' = Interleaved
    /\ UNCHANGED <<batch, dispatches, calls, bindAlls>>

\* ------------------------------------------------ bindAllScrobblers (48-59)
\* The call runs up to its first await: getSession() of the first scrobbler.
bindAllScrobblers ==
    /\ bindAll.pc = "idle"
    /\ bindAlls < MaxBindAll
    /\ bindAlls' = bindAlls + 1
    /\ bindAll' = [pc |-> "getSession", i |-> 1,
                   attempted |-> <<registeredScrobblers[1]>>,
                   succeeded |-> {},
                   alone |-> (boundScrobblers = <<>>),
                   returned |-> <<>>]
    /\ last' = NoChange
    /\ UNCHANGED <<batch, boundScrobblers, dispatches, calls, ops>>

\* Mutant of bindAllNext: the loop ends at the first getSession() that failed.
bindAllNext_AbortOnFailure(b, array) ==
    IF b.i < Len(registeredScrobblers) /\ Cardinality(b.succeeded) = b.i
    THEN [b EXCEPT !.i = b.i + 1,
                   !.attempted = Append(b.attempted,
                                        registeredScrobblers[b.i + 1])]
    ELSE [b EXCEPT !.pc = "done", !.returned = array]

\* The loop after one getSession() settled: the next await, or the return
\* of the array.
bindAllNext(b, array) ==
    IF b.i < Len(registeredScrobblers)
    THEN [b EXCEPT !.i = b.i + 1,
                   !.attempted = Append(b.attempted,
                                        registeredScrobblers[b.i + 1])]
    ELSE [b EXCEPT !.pc = "done", !.returned = array]

\* getSession() resolved: bind the scrobbler, go on.
getSessionResolved ==
    /\ bindAll.pc = "getSession"
    /\ LET scrobbler == registeredScrobblers[bindAll.i]
           array == bindScrobblerArray(scrobbler, boundScrobblers)
           next == bindAllNext(
                       [bindAll EXCEPT !.succeeded = @ \cup {scrobbler}],
                       array)
       IN  /\ boundScrobblers' = array
           /\ bindAll' = IF next.pc = "done" THEN BindAllIdle ELSE next
           /\ last' = [NoChange EXCEPT
                          !.op = "bind", !.scrobbler = scrobbler,
                          !.before = boundScrobblers,
                          !.log = bindScrobblerLog(scrobbler, boundScrobblers),
                          !.bindAllReturned =
                              IF next.pc = "done" THEN next ELSE BindAllIdle]
    /\ UNCHANGED <<batch, dispatches, calls, bindAlls, ops>>

\* Mutant of getSessionRejected: the scrobbler whose getSession() rejected is
\* unbound.
getSessionRejected_Unbinds ==
    /\ bindAll.pc = "getSession"
    /\ LET scrobbler == registeredScrobblers[bindAll.i]
           array == unbindScrobblerArray(scrobbler, boundScrobblers)
           next == bindAllNext(bindAll, array)
       IN  /\ boundScrobblers' = array
           /\ bindAll' = IF next.pc = "done" THEN BindAllIdle ELSE next
           /\ last' = [NoChange EXCEPT
                          !.log = "warn:unable-to-bind",
                          !.bindAllReturned =
                              IF next.pc = "done" THEN next ELSE BindAllIdle]
    /\ UNCHANGED <<batch, dispatches, calls, bindAlls, ops>>

\* getSession() rejected: warn, go on.
getSessionRejected ==
    /\ bindAll.pc = "getSession"
    /\ LET next == bindAllNext(bindAll, boundScrobblers)
       IN  /\ bindAll' = IF next.pc = "done" THEN BindAllIdle ELSE next
           /\ last' = [NoChange EXCEPT
                          !.log = "warn:unable-to-bind",
                          !.bindAllReturned =
                              IF next.pc = "done" THEN next ELSE BindAllIdle]
    /\ UNCHANGED <<batch, boundScrobblers, dispatches, calls, bindAlls, ops>>

\* ------------------------------------------------------------ the dispatches
\* A value a scrobbler call rejects with that is no ServiceCallResult error
\* (an exception of the scrobbler, a network fault).
Fault == "fault"

\* What sendNowPlaying/scrobble/toggleLove of a scrobbler resolve with and
\* reject with, and what getSongInfo resolves with.
Resolutions == {RESULT_OK}
Rejections == {ERROR_AUTH, ERROR_OTHER, Fault, RESULT_OK, RESULT_IGNORE}
SongInfoValue == "song-info"
Null == "null"

\* The error processErrorResult throws for a value that is no error result.
InvalidResult == "Error: Invalid result"

SingleOps == {"sendNowPlaying", "scrobble", "toggleLove", "getSongInfo"}

\* The scrobblers an operation calls, in call order.
dispatchScrobblers(op, array) ==
    CASE op = "sendNowPlaying" -> array
      [] op = "scrobble" -> array
      [] op = "scrobbleBatch" -> array
      [] op = "toggleLove" -> SelectSeq(registeredScrobblers, canLoveSong)
      [] op = "getSongInfo" -> SelectSeq(registeredScrobblers, canLoadSongInfo)

Pending(st) == {b \in DOMAIN st : st[b] \in {"pending", "isReady"}}

\* The value the promise of scrobbler b's call resolved with, after its catch
\* handler: for scrobbleBatch the array of failed indices, or undefined when
\* the handler recorded a rejection; for the others the result.
Undefined == [kind |-> "undefined", indices |-> <<>>]
ArrayOf(indices) == [kind |-> "array", indices |-> indices]

resolvedValue(d, b) ==
    IF d.op = "scrobbleBatch"
    THEN (IF d.st[b] = "caught" THEN Undefined ELSE ArrayOf(d.reports[b]))
    ELSE d.st[b]

\* Mutants of promiseAllValues: the values in reverse order; the values of
\* the scrobblers that are still bound only.
promiseAllValues_Reversed(d) ==
    [i \in 1..Len(d.scrobblers) |->
         resolvedValue(d, d.scrobblers[Len(d.scrobblers) + 1 - i])]

promiseAllValues_StillBound(d) ==
    LET still == SelectSeq(d.scrobblers,
                           LAMBDA x : x \in Range(boundScrobblers))
    IN  [i \in 1..Len(still) |-> resolvedValue(d, still[i])]

\* Promise.all over the mapped calls: the values in the order of the input
\* array, whatever the order the calls settled in.
promiseAllValues(d) ==
    [i \in 1..Len(d.scrobblers) |-> resolvedValue(d, d.scrobblers[i])]

\* Mutant of promiseAll: the join rejects with the first rejection but never
\* resolves.
promiseAll_NeverResolves(d, b, error) ==
    IF d.status # "pending" THEN d
    ELSE IF d.st[b] = "thrown"
         THEN [d EXCEPT !.status = "rejected", !.error = error]
    ELSE d

\* Promise.all after one more of its promises settled: it rejects with the
\* first rejection, and resolves once every promise resolved.
promiseAll(d, b, error) ==
    IF d.status # "pending" THEN d
    ELSE IF d.st[b] = "thrown"
         THEN [d EXCEPT !.status = "rejected", !.error = error]
    ELSE IF Pending(d.st) = {}
         THEN [d EXCEPT !.status = "resolved",
                        !.value = promiseAllValues(d)]
    ELSE d

\* The calls map() makes: one per scrobbler of the array.
issuedCalls(scrobblers) == [b \in Range(scrobblers) |-> 1]

\* Mutant of newDispatch: the promises are joined as by Promise.race, which
\* never settles for an empty array.
newDispatch_RaceOnEmpty(op, array) ==
    LET scrobblers == dispatchScrobblers(op, array)
    IN  [op |-> op,
         scrobblers |-> scrobblers,
         issued |-> issuedCalls(scrobblers),
         outcome |-> [b \in Range(scrobblers) |-> "none"],
         st |-> [b \in Range(scrobblers) |-> "pending"],
         reports |-> [b \in Range(scrobblers) |-> <<>>],
         erroredScrobbles |-> {},
         status |-> "pending",
         value |-> <<>>,
         error |-> "none"]

\* The synchronous part of sendNowPlaying, scrobble, scrobbleBatch,
\* toggleLove, getSongInfo: map() calls every scrobbler of the array,
\* Promise.all waits for them.
newDispatch(op, array) ==
    LET scrobblers == dispatchScrobblers(op, array)
    IN  [op |-> op,
         scrobblers |-> scrobblers,
         issued |-> issuedCalls(scrobblers),
         outcome |-> [b \in Range(scrobblers) |-> "none"],
         st |-> [b \in Range(scrobblers) |-> "pending"],
         reports |-> [b \in Range(scrobblers) |-> <<>>],
         erroredScrobbles |-> {},
         status |-> IF scrobblers = <<>> THEN "resolved" ELSE "pending",
         value |-> <<>>,
         error |-> "none"]

\* The dispatches in flight after dispatch d made a step to state new: a
\* dispatch whose calls all settled has nothing left to do, and one that
\* goes on has returned nothing yet or has rejected.
inFlight(ds, d, new) ==
    IF Pending(new.st) = {}
    THEN SubSeq(ds, 1, d - 1) \o SubSeq(ds, d + 1, Len(ds))
    ELSE [ds EXCEPT ![d] = [new EXCEPT !.error = "none"]]

\* What the caller of dispatch d gets in this step, if anything.
returnedNow(old, new) ==
    IF old.status = "pending" /\ new.status # "pending"
    THEN new ELSE NoDispatch

startDispatch(op) ==
    LET new == newDispatch(op, boundScrobblers)
        cost == IF new.scrobblers = <<>> THEN 1 ELSE Len(new.scrobblers)
    IN  /\ calls + cost <= MaxCalls
        /\ new.scrobblers # <<>> => Len(dispatches) < MaxInFlight
        /\ calls' = calls + cost
        /\ dispatches' = IF new.scrobblers = <<>>
                         THEN dispatches ELSE Append(dispatches, new)
        /\ last' = [NoChange EXCEPT
                       !.op = op,
                       !.before = boundScrobblers,
                       !.started = new,
                       !.returned = IF new.status = "resolved"
                                    THEN new ELSE NoDispatch]
        /\ UNCHANGED <<batch, boundScrobblers, bindAll, bindAlls, ops>>

\* The state of a call once the scrobbler's promise resolved with value.
callResolvedState(op, value) ==
    IF op = "getSongInfo" THEN SongInfoValue ELSE value

callResolved(d, b, value) ==
    /\ d \in 1..Len(dispatches)
    /\ dispatches[d].op \in SingleOps
    /\ b \in DOMAIN dispatches[d].st
    /\ dispatches[d].st[b] = "pending"
    /\ LET cur == dispatches[d]
           new == promiseAll(
                      [cur EXCEPT !.outcome[b] = callResolvedState(cur.op, value),
                                  !.st[b] = callResolvedState(cur.op, value)],
                      b, "none")
       IN  /\ dispatches' = inFlight(dispatches, d, new)
           /\ last' = [NoChange EXCEPT !.returned = returnedNow(cur, new)]
    /\ UNCHANGED <<batch, boundScrobblers, bindAll, calls, bindAlls, ops>>

\* Mutants of processErrorResult: every error result is handled like
\* ERROR_AUTH; a value that is no error result is forwarded.
processErrorResult_AlwaysAsks(result) ==
    IF ~(result = ERROR_OTHER \/ result = ERROR_AUTH) THEN "thrown"
    ELSE "isReady"

processErrorResult_ForwardsAny(result) ==
    IF result = ERROR_AUTH THEN "isReady" ELSE result

\* processErrorResult up to its first await (219-229): "thrown" for a value
\* that is no error result, "isReady" when it awaits isReadyForGrantAccess(),
\* otherwise the result it forwards.
processErrorResult(result) ==
    LET isOtherError == result = ERROR_OTHER
        isAuthError == result = ERROR_AUTH
    IN  IF ~(isOtherError \/ isAuthError) THEN "thrown"
        ELSE IF isAuthError THEN "isReady"
        ELSE result

\* Mutant of callRejectedState: a failed getSongInfo is handled like the
\* other failed calls.
callRejectedState_NoNull(op, result) == processErrorResult(result)

\* The catch handler of a call: getSongInfo gives null, the others give what
\* processErrorResult gives.
callRejectedState(op, result) ==
    IF op = "getSongInfo" THEN Null ELSE processErrorResult(result)

callRejected(d, b, result) ==
    /\ d \in 1..Len(dispatches)
    /\ dispatches[d].op \in SingleOps
    /\ b \in DOMAIN dispatches[d].st
    /\ dispatches[d].st[b] = "pending"
    /\ LET cur == dispatches[d]
           new == promiseAll(
                      [cur EXCEPT !.outcome[b] = result,
                                  !.st[b] = callRejectedState(cur.op, result)],
                      b, InvalidResult)
       IN  /\ dispatches' = inFlight(dispatches, d, new)
           /\ last' = IF cur.op = "getSongInfo"
                      THEN [NoChange EXCEPT
                               !.log = "warn:no-song-info",
                               !.returned = returnedNow(cur, new)]
                      ELSE [NoChange EXCEPT
                               !.op = "processErrorResult",
                               !.scrobbler = b,
                               !.result = result,
                               !.handled = new.st[b],
                               !.before = boundScrobblers,
                               !.returned = returnedNow(cur, new)]
    /\ UNCHANGED <<batch, boundScrobblers, bindAll, calls, bindAlls, ops>>

\* processErrorResult after isReadyForGrantAccess() settled (229-236).
\* isReady is "true", "false", or "fault" when the query rejected.
isReadySettled(d, b, isReady) ==
    /\ d \in 1..Len(dispatches)
    /\ b \in DOMAIN dispatches[d].st
    /\ dispatches[d].st[b] = "isReady"
    /\ LET cur == dispatches[d]
           new == promiseAll(
                      [cur EXCEPT !.st[b] = IF isReady = "fault"
                                            THEN "thrown" ELSE ERROR_AUTH],
                      b, Fault)
       IN  /\ dispatches' = inFlight(dispatches, d, new)
           /\ last' = [NoChange EXCEPT
                          !.op = "processErrorResult",
                          !.scrobbler = b,
                          !.result = ERROR_AUTH,
                          !.isReady = isReady,
                          !.handled = new.st[b],
                          !.before = boundScrobblers,
                          !.log = IF isReady = "false"
                                  THEN unbindScrobblerLog(b, boundScrobblers)
                                  ELSE "none",
                          !.returned = returnedNow(cur, new)]
    /\ boundScrobblers' = IF isReady = "false"
                          THEN unbindScrobblerArray(b, boundScrobblers)
                          ELSE boundScrobblers
    /\ bindAll' = IF isReady = "false" THEN Interleaved ELSE bindAll
    /\ UNCHANGED <<batch, calls, bindAlls, ops>>

\* ------------------------------------------- scrobbleBatch (144-167)
\* What a scrobbler's scrobbleBatch resolves with: the failed song indices of
\* a batch of two songs, in the order its chunks reported them.
Reports == {<<>>, <<0>>, <<1, 0>>}

\* What a scrobbler's scrobbleBatch rejects with when a chunk handler throws.
TypeError == "TypeError"

\* What a scrobbler's scrobbleBatch rejects with: the error of a handler that
\* threw, or the result of a request made with a session that is not valid.
BatchRejections == {TypeError, ERROR_AUTH}

\* scrobbler.scrobbleBatch() resolved with the array report.
batchResolved(d, b, report) ==
    /\ d \in 1..Len(dispatches)
    /\ dispatches[d].op = "scrobbleBatch"
    /\ b \in DOMAIN dispatches[d].st
    /\ dispatches[d].st[b] = "pending"
    /\ LET cur == dispatches[d]
           new == promiseAll(
                      [cur EXCEPT !.st[b] = "resolved", !.reports[b] = report],
                      b, "none")
       IN  /\ dispatches' = inFlight(dispatches, d, new)
           /\ last' = [NoChange EXCEPT !.returned = returnedNow(cur, new)]
    /\ UNCHANGED <<batch, boundScrobblers, bindAll, calls, bindAlls, ops>>

\* Mutant of batchRejected: the rejection is handled like the one of a
\* scrobble call, and an ERROR_AUTH unbinds the scrobbler.
batchRejected_Unbinds(d, b, reason) ==
    /\ d \in 1..Len(dispatches)
    /\ dispatches[d].op = "scrobbleBatch"
    /\ b \in DOMAIN dispatches[d].st
    /\ dispatches[d].st[b] = "pending"
    /\ LET cur == dispatches[d]
           new == promiseAll(
                      [cur EXCEPT
                          !.st[b] = "caught",
                          !.erroredScrobbles = @ \cup {<<getId(b), reason>>}],
                      b, "none")
       IN  /\ dispatches' = inFlight(dispatches, d, new)
           /\ last' = [NoChange EXCEPT !.returned = returnedNow(cur, new)]
    /\ boundScrobblers' = IF reason = ERROR_AUTH
                          THEN unbindScrobblerArray(b, boundScrobblers)
                          ELSE boundScrobblers
    /\ UNCHANGED <<batch, bindAll, calls, bindAlls, ops>>

\* scrobbler.scrobbleBatch() rejected: the catch handler (150-152) stores the
\* value under the scrobbler's ID and resolves with undefined.
batchRejected(d, b, reason) ==
    /\ d \in 1..Len(dispatches)
    /\ dispatches[d].op = "scrobbleBatch"
    /\ b \in DOMAIN dispatches[d].st
    /\ dispatches[d].st[b] = "pending"
    /\ LET cur == dispatches[d]
           new == promiseAll(
                      [cur EXCEPT
                          !.st[b] = "caught",
                          !.erroredScrobbles = @ \cup {<<getId(b), reason>>}],
                      b, "none")
       IN  /\ dispatches' = inFlight(dispatches, d, new)
           /\ last' = [NoChange EXCEPT !.returned = returnedNow(cur, new)]
    /\ UNCHANGED <<batch, boundScrobblers, bindAll, calls, bindAlls, ops>>

Next ==
    \/ \E s \in Registered : bindScrobbler(s)
    \/ \E s \in Instances : unbindScrobbler(s)
    \/ bindAllScrobblers
    \/ getSessionResolved
    \/ getSessionRejected
    \/ \E op \in SingleOps \cup {"scrobbleBatch"} : startDispatch(op)
    \/ \E d \in 1..Len(dispatches), b \in Registered, v \in Resolutions :
           callResolved(d, b, v)
    \/ \E d \in 1..Len(dispatches), b \in Registered, r \in Rejections :
           callRejected(d, b, r)
    \/ \E d \in 1..Len(dispatches), b \in Registered,
          r \in {"true", "false", "fault"} : isReadySettled(d, b, r)
    \/ \E d \in 1..Len(dispatches), b \in Registered, r \in Reports :
           batchResolved(d, b, r)
    \/ \E d \in 1..Len(dispatches), b \in Registered, r \in BatchRejections :
           batchRejected(d, b, r)

Spec == Init /\ [][Next]_vars

\* Every scrobbler call, every isReadyForGrantAccess() query and every
\* getSession() that is pending settles at some time.
CallSettles ==
    \E d \in 1..Len(dispatches), b \in Registered :
        \/ \E v \in Resolutions : callResolved(d, b, v)
        \/ \E r \in Rejections : callRejected(d, b, r)
        \/ \E r \in {"true", "false", "fault"} : isReadySettled(d, b, r)
        \/ \E r \in Reports : batchResolved(d, b, r)
        \/ \E r \in BatchRejections : batchRejected(d, b, r)

SessionSettles == getSessionResolved \/ getSessionRejected

\* The behaviours with at most MaxLiveInFlight dispatches in flight at a
\* time, under that fairness.
NextLive == Next /\ Len(dispatches') <= MaxLiveInFlight

SpecLive ==
    Init /\ [][NextLive]_vars
         /\ WF_vars(CallSettles)
         /\ WF_vars(SessionSettles)

\* --------------------------- BaseScrobbler.scrobbleBatch (base-scrobbler)
\* splitArrayToChunks(array, chunkSize) of util/util: consecutive slices of
\* chunkSize elements, the last one with what is left.
RECURSIVE splitArrayToChunks(_, _)
splitArrayToChunks(array, chunkSize) ==
    IF array = <<>> THEN <<>>
    ELSE IF Len(array) <= chunkSize THEN <<array>>
    ELSE <<SubSeq(array, 1, chunkSize)>>
             \o splitArrayToChunks(
                    SubSeq(array, chunkSize + 1, Len(array)), chunkSize)

\* Mutant of pushedIndices: the chunk's offset is forgotten.
pushedIndices_NoOffset(songIndices, chunkIndex, maxChunkSize) ==
    [j \in 1..Len(songIndices) |-> songIndices[j]]

\* The catch handler of one chunk request (253-258): the indices it pushes
\* to results, for the chunk with the zero-based index chunkIndex.
pushedIndices(songIndices, chunkIndex, maxChunkSize) ==
    LET songIndexOffset == chunkIndex * maxChunkSize
    IN  [j \in 1..Len(songIndices) |-> songIndices[j] + songIndexOffset]

\* The requests a call makes: one scrobbleBatchWithLimit per chunk (251-260).
submittedRequests(chunks) == [k \in 1..Len(chunks) |-> 1]

\* await Promise.all(requestPromises); return results (262-263).
batchSettled(b, k) ==
    IF b.pc # "pending" THEN b
    ELSE IF b.st[k] = "thrown"
         THEN [b EXCEPT !.pc = "rejected", !.error = TypeError]
    ELSE IF \A j \in 1..Len(b.st) : b.st[j] \in {"resolved", "handled"}
         THEN [b EXCEPT !.pc = "resolved", !.value = b.results]
    ELSE b

\* The ascending lists of local song indices of a chunk of len songs.
RECURSIVE indexLists(_)
indexLists(len) ==
    IF len = 0 THEN {<<>>}
    ELSE indexLists(len - 1)
             \cup {Append(l, len - 1) : l \in indexLists(len - 1)}

\* The synchronous part of scrobbleBatch (246-262): split, submit every chunk.
scrobbleBatchStart ==
    /\ batch.pc = "idle"
    /\ LET chunks == splitArrayToChunks(batch.songs, batch.maxChunkSize)
       IN  batch' = [batch EXCEPT
                        !.pc = IF chunks = <<>> THEN "resolved" ELSE "pending",
                        !.chunks = chunks,
                        !.st = [k \in 1..Len(chunks) |-> "pending"],
                        !.rejectedWith = [k \in 1..Len(chunks) |-> <<>>],
                        !.submitted = submittedRequests(chunks)]
    /\ UNCHANGED serviceVars

\* scrobbleBatchWithLimit(chunk) resolved.
chunkResolved(k) ==
    /\ k \in 1..Len(batch.st)
    /\ batch.st[k] = "pending"
    /\ batch' = batchSettled([batch EXCEPT !.st[k] = "resolved"], k)
    /\ UNCHANGED serviceVars

\* scrobbleBatchWithLimit(chunk) rejected with the list songIndices.
chunkRejected(k, songIndices) ==
    /\ k \in 1..Len(batch.st)
    /\ batch.st[k] = "pending"
    /\ songIndices \in indexLists(Len(batch.chunks[k]))
    /\ batch' = batchSettled(
           [batch EXCEPT
               !.st[k] = "handled",
               !.rejectedWith[k] = songIndices,
               !.results = @ \o pushedIndices(songIndices, k - 1,
                                              batch.maxChunkSize)],
           k)
    /\ UNCHANGED serviceVars

\* scrobbleBatchWithLimit(chunk) rejected with a value that cannot be
\* iterated: the handler throws.
chunkFaulted(k) ==
    /\ k \in 1..Len(batch.st)
    /\ batch.st[k] = "pending"
    /\ batch' = batchSettled([batch EXCEPT !.st[k] = "thrown"], k)
    /\ UNCHANGED serviceVars

InitChunk ==
    /\ InitService
    /\ \E n \in 0..MaxSongs, m \in 1..MaxChunkSize :
           batch = BatchIdle([i \in 1..n |-> i - 1], m)

NextChunk ==
    \/ scrobbleBatchStart
    \/ \E k \in 1..MaxSongs : chunkResolved(k)
    \/ \E k \in 1..MaxSongs, l \in indexLists(MaxChunkSize) :
           chunkRejected(k, l)
    \/ \E k \in 1..MaxSongs : chunkFaulted(k)

SpecChunk == InitChunk /\ [][NextChunk]_vars

\* ================================================================== claims
\* Helpers of the statements below.
BoundOps == {"sendNowPlaying", "scrobble"}

NoDuplicates(array) ==
    \A i, j \in 1..Len(array) : i # j => array[i] # array[j]

\* array without the scrobbler b, the others in their order.
Without(array, b) == SelectSeq(array, LAMBDA x : x # b)

\* Every call of dispatch d settled with a ServiceCallResult, and every
\* isReadyForGrantAccess() query it made was answered.
NoFault(d) == \A b \in DOMAIN d.st : d.st[b] # "thrown"

CeilDiv(n, m) == (n + m - 1) \div m

RECURSIVE Concat(_)
Concat(seqs) == IF seqs = <<>> THEN <<>> ELSE Head(seqs) \o Concat(Tail(seqs))

\* ---------------------------------------------------------------------- C1
\* C1 (settle-all law): a sendNowPlaying or scrobble dispatch calls the
\* scrobblers of boundScrobblers as it is when the dispatch starts, in that
\* order; and when every call settled with a result (OK, ERROR_AUTH or
\* ERROR_OTHER, in any combination and completion order, every
\* isReadyForGrantAccess() query answered) the dispatch resolves with
\* exactly one value per scrobbler called, the value at position i being
\* what the i-th scrobbler's call settled with.
C1_SettleAll ==
    /\ last.started.op \in BoundOps =>
           last.started.scrobblers = last.before
    /\ (last.returned.op \in BoundOps /\ NoFault(last.returned)) =>
           /\ last.returned.status = "resolved"
           /\ Len(last.returned.value) = Len(last.returned.scrobblers)
           /\ \A i \in 1..Len(last.returned.scrobblers) :
                  last.returned.value[i] =
                      last.returned.outcome[last.returned.scrobblers[i]]

\* Three scrobblers bound, two of them fail, each in its own way.
C1_Witness ==
    /\ last.returned.op = "scrobble"
    /\ last.returned.scrobblers = registeredScrobblers
    /\ last.returned.status = "resolved"
    /\ last.returned.value = <<ERROR_AUTH, RESULT_OK, ERROR_OTHER>>

\* ---------------------------------------------------------------------- C2
\* C2 (fault containment): a sendNowPlaying, scrobble or toggleLove dispatch
\* never fails as a whole; it never returns a rejection to its caller.
C2_NeverRejects ==
    last.returned.op \in BoundOps \cup {"toggleLove"} =>
        last.returned.status # "rejected"

\* ---------------------------------------------------------------------- C3
\* C3: toggleLove calls exactly the scrobblers that are bound when the
\* dispatch starts and can love songs.
C3_ToggleLoveCallsBound ==
    last.started.op = "toggleLove" =>
        last.started.scrobblers = SelectSeq(last.before, canLoveSong)

\* ---------------------------------------------------------------------- C4
\* C4 (auth-error rebinding): when processErrorResult handled ERROR_AUTH of a
\* bound scrobbler, the scrobbler is gone from boundScrobblers if
\* isReadyForGrantAccess() answered false and is still there if it answered
\* true; every other scrobbler is where it was.
C4_AuthErrorRebinding ==
    (/\ last.op = "processErrorResult"
     /\ last.result = ERROR_AUTH
     /\ last.scrobbler \in Range(last.before)) =>
        /\ last.isReady = "false" =>
               /\ last.scrobbler \notin Range(boundScrobblers)
               /\ boundScrobblers = Without(last.before, last.scrobbler)
        /\ last.isReady = "true" =>
               /\ last.scrobbler \in Range(boundScrobblers)
               /\ boundScrobblers = last.before

\* The unbound scrobbler is the first of three: the others stay.
C4_Witness ==
    /\ last.op = "processErrorResult"
    /\ last.isReady = "false"
    /\ last.before = registeredScrobblers
    /\ last.scrobbler = registeredScrobblers[1]
    /\ boundScrobblers = Tail(registeredScrobblers)

\* ---------------------------------------------------------------------- C5
\* C5 (batch partial failure): when a scrobbler's scrobbleBatch reported a
\* non-empty list of failed indices, the service's scrobbleBatch fails with
\* an error that maps exactly the scrobblers that reported failures to their
\* lists.
batchFailureMap(d) ==
    {<<getId(b), d.reports[b]>> : b \in {x \in DOMAIN d.reports :
                                             d.reports[x] # <<>>}}

C5_BatchPartialFailure ==
    (/\ last.returned.op = "scrobbleBatch"
     /\ \E b \in DOMAIN last.returned.reports :
            last.returned.reports[b] # <<>>) =>
        /\ last.returned.status = "rejected"
        /\ last.returned.error = batchFailureMap(last.returned)

\* ---------------------------------------------------------------------- C6
\* C6 (chunking law): a scrobbler's scrobbleBatch of N songs with chunk size
\* M submits ceil(N/M) chunks that are the songs in order, M songs each but
\* for the last, every chunk once whatever the other chunks do; and when
\* every chunk settled (resolved, or rejected with a list of local indices)
\* it resolves with every k*M + i of a chunk k rejected with i, each once,
\* and nothing else.
C6_ChunkingLaw ==
    batch.pc # "idle" =>
        /\ Len(batch.chunks) = CeilDiv(Len(batch.songs), batch.maxChunkSize)
        /\ Concat(batch.chunks) = batch.songs
        /\ \A k \in 1..Len(batch.chunks) :
               /\ Len(batch.chunks[k]) >= 1
               /\ Len(batch.chunks[k]) <= batch.maxChunkSize
               /\ k < Len(batch.chunks) =>
                      Len(batch.chunks[k]) = batch.maxChunkSize
               /\ batch.submitted[k] = 1
        /\ (\A k \in 1..Len(batch.st) : batch.st[k] \in {"resolved", "handled"})
               => batch.pc = "resolved"
        /\ batch.pc = "resolved" =>
               LET expected == UNION {
                       {(k - 1) * batch.maxChunkSize + batch.rejectedWith[k][j] :
                            j \in 1..Len(batch.rejectedWith[k])} :
                       k \in 1..Len(batch.chunks)}
               IN  /\ Range(batch.value) = expected
                   /\ Len(batch.value) = Cardinality(expected)

\* Four songs in chunks of three: the second chunk (song 3) is rejected
\* before the first one (song 1 of it).
C6_Witness ==
    /\ batch.pc = "resolved"
    /\ Len(batch.songs) = 4
    /\ batch.maxChunkSize = 3
    /\ batch.value = <<3, 1>>

\* ---------------------------------------------------------------------- C7
\* C7 (bound set invariant): boundScrobblers holds registered scrobblers
\* only, none of them twice (nor two with one label); and bindScrobbler of a
\* scrobbler that is bound leaves boundScrobblers as it is.
C7_BoundSetInvariant ==
    /\ Range(boundScrobblers) \subseteq Registered
    /\ NoDuplicates(boundScrobblers)
    /\ NoDuplicates([i \in 1..Len(boundScrobblers) |->
                         getLabel(boundScrobblers[i])])
    /\ (last.op = "bind" /\ last.scrobbler \in Range(last.before)) =>
           boundScrobblers = last.before

\* bindScrobbler of the second of two bound scrobblers.
C7_Witness ==
    /\ last.op = "bind"
    /\ Len(last.before) = 2
    /\ last.scrobbler = last.before[1]
    /\ boundScrobblers = last.before

\* ---------------------------------------------------------------------- C8
\* C8 (one read of the bound set): a sendNowPlaying, scrobble or
\* scrobbleBatch dispatch calls the scrobblers bound when it starts, each
\* once; while it is in flight the calls it made stay what they were, and
\* (no call of it ending in a thrown error) it resolves with one value per
\* scrobbler called, in call order, also for a scrobbler that was unbound in
\* the meantime.
SnapshotOps == BoundOps \cup {"scrobbleBatch"}

OneCallEach(d) ==
    /\ NoDuplicates(d.scrobblers)
    /\ DOMAIN d.issued = Range(d.scrobblers)
    /\ \A b \in DOMAIN d.issued : d.issued[b] = 1

C8_OneReadOfBoundSet ==
    /\ last.started.op \in SnapshotOps =>
           /\ last.started.scrobblers = last.before
           /\ OneCallEach(last.started)
    /\ \A i \in 1..Len(dispatches) :
           dispatches[i].op \in SnapshotOps => OneCallEach(dispatches[i])
    /\ (last.returned.op \in SnapshotOps /\ NoFault(last.returned)) =>
           /\ last.returned.status = "resolved"
           /\ OneCallEach(last.returned)
           /\ DOMAIN last.returned.value = 1..Len(last.returned.scrobblers)
           /\ \A i \in 1..Len(last.returned.scrobblers) :
                  last.returned.value[i] =
                      resolvedValue(last.returned, last.returned.scrobblers[i])

\* A scrobble over three scrobblers returns the result of the second one,
\* which was unbound while its call was in flight.
C8_Witness ==
    /\ last.returned.op = "scrobble"
    /\ last.returned.status = "resolved"
    /\ last.returned.scrobblers = registeredScrobblers
    /\ registeredScrobblers[2] \notin Range(boundScrobblers)
    /\ last.returned.value[2] = RESULT_OK

\* ---------------------------------------------------------------------- C9
\* C9: bindAllScrobblers asks every registered scrobbler for its session,
\* whatever the earlier ones answered; started with nothing bound and with
\* no bind or unbind in between, it leaves bound exactly the scrobblers whose
\* getSession() resolved, in registration order, and returns that array.
C9_BindAll ==
    last.bindAllReturned.pc = "done" =>
        /\ last.bindAllReturned.attempted = registeredScrobblers
        /\ last.bindAllReturned.alone =>
               /\ boundScrobblers =
                      SelectSeq(registeredScrobblers,
                                LAMBDA x : x \in last.bindAllReturned.succeeded)
               /\ last.bindAllReturned.returned = boundScrobblers

\* Scenario 1: the first getSession() fails, the others succeed.
C9_Witness ==
    /\ last.bindAllReturned.pc = "done"
    /\ last.bindAllReturned.alone
    /\ last.bindAllReturned.succeeded = {"librefm", "listenbrainz"}
    /\ last.bindAllReturned.returned = <<"librefm", "listenbrainz">>

\* --------------------------------------------------------------------- C10
\* C10: unbindScrobbler of a scrobbler that is not bound (no bound scrobbler
\* has its label) reports that it is not bound and leaves boundScrobblers,
\* members and order, as it is; so does the unbind processErrorResult makes.
C10_UnbindNotBound ==
    (/\ \/ last.op = "unbind"
        \/ last.op = "processErrorResult" /\ last.isReady = "false"
     /\ ~isScrobblerInArray(last.scrobbler, last.before)) =>
        /\ boundScrobblers = last.before
        /\ last.log = "error:not-bound"

\* unbindScrobbler of a scrobbler that is not among the two bound ones.
C10_Witness ==
    /\ last.op = "unbind"
    /\ Len(last.before) = 2
    /\ ~isScrobblerInArray(last.scrobbler, last.before)
    /\ last.log = "error:not-bound"
    /\ boundScrobblers = last.before

\* --------------------------------------------------------------------- C11
\* C11: processErrorResult of ERROR_OTHER leaves boundScrobblers as it is and
\* does not ask isReadyForGrantAccess(); and the value it gives back is the
\* result it was given, for ERROR_OTHER and (once isReadyForGrantAccess()
\* answered true or false) for ERROR_AUTH.
C11_ErrorOtherFrame ==
    last.op = "processErrorResult" =>
        /\ last.result = ERROR_OTHER =>
               /\ boundScrobblers = last.before
               /\ last.isReady = "none"
               /\ last.handled = ERROR_OTHER
        /\ (last.result = ERROR_AUTH /\ last.isReady \in {"true", "false"}) =>
               last.handled = ERROR_AUTH

\* ERROR_OTHER of one of two bound scrobblers.
C11_Witness ==
    /\ last.op = "processErrorResult"
    /\ last.result = ERROR_OTHER
    /\ last.handled = ERROR_OTHER
    /\ Len(last.before) = 2
    /\ boundScrobblers = last.before

\* --------------------------------------------------------------------- C12
\* C12: processErrorResult of a value that is neither ERROR_AUTH nor
\* ERROR_OTHER (RESULT_OK and RESULT_IGNORE too) throws the invalid-result
\* error, does not ask isReadyForGrantAccess() and leaves boundScrobblers as
\* it is; the dispatch that fails with it fails with that error.
C12_ProtocolError ==
    (/\ last.op = "processErrorResult"
     /\ last.result \notin {ERROR_AUTH, ERROR_OTHER}) =>
        /\ last.handled = "thrown"
        /\ last.isReady = "none"
        /\ boundScrobblers = last.before
        /\ last.returned.op # "none" =>
               /\ last.returned.status = "rejected"
               /\ last.returned.error = InvalidResult

\* A bound scrobbler's call rejects with RESULT_OK.
C12_Witness ==
    /\ last.op = "processErrorResult"
    /\ last.result = RESULT_OK
    /\ last.handled = "thrown"
    /\ last.scrobbler \in Range(boundScrobblers)
    /\ last.returned.error = InvalidResult

\* --------------------------------------------------------------------- C13
\* C13: getSongInfo calls exactly the registered scrobblers that can load
\* song info, bound or not, in registration order; it always resolves, with
\* one entry per scrobbler called, in call order, null where the lookup
\* failed; and no step of a getSongInfo (its start, the settling of one of
\* its calls) changes boundScrobblers.
SongInfoPending ==
    {<<d, b>> \in (1..Len(dispatches)) \X Registered :
        /\ dispatches[d].op = "getSongInfo"
        /\ b \in Pending(dispatches[d].st)}

SongInfoCalls(d) ==
    /\ Range(d.scrobblers) = {s \in Registered : canLoadSongInfo(s)}
    /\ \A i, j \in 1..Len(d.scrobblers) :
           i < j => IndexOf(registeredScrobblers, d.scrobblers[i])
                        < IndexOf(registeredScrobblers, d.scrobblers[j])

SongInfoReturned(d) ==
    /\ d.status = "resolved"
    /\ DOMAIN d.value = 1..Len(d.scrobblers)
    /\ \A i \in 1..Len(d.scrobblers) :
           d.value[i] = IF d.outcome[d.scrobblers[i]] = SongInfoValue
                        THEN SongInfoValue ELSE Null

C13_GetSongInfo ==
    /\ [](/\ last.started.op = "getSongInfo" => SongInfoCalls(last.started)
          /\ last.returned.op = "getSongInfo" =>
                 /\ SongInfoCalls(last.returned)
                 /\ SongInfoReturned(last.returned))
    /\ [][Cardinality(SongInfoPending') # Cardinality(SongInfoPending)
              => boundScrobblers' = boundScrobblers]_vars

\* The lookup of the bound Last.fm fails, the one of ListenBrainz, which is
\* not bound, succeeds.
C13_Witness ==
    /\ last.returned.op = "getSongInfo"
    /\ last.returned.value = <<Null, SongInfoValue>>
    /\ boundScrobblers = <<"lastfm">>

\* --------------------------------------------------------------------- C14
\* C14: a scrobbleBatch of the service in which no scrobbler reports a failed
\* index resolves, without an error: at once when no scrobbler is bound, and
\* otherwise when the last of the scrobblers' calls settled, whatever the
\* number of scrobblers and the order they settled in.
NoFailedIndex(d) == \A b \in DOMAIN d.reports : d.reports[b] = <<>>

C14_BatchSuccess ==
    /\ (last.started.op = "scrobbleBatch" /\ last.started.scrobblers = <<>>) =>
           /\ last.returned = last.started
           /\ last.returned.status = "resolved"
           /\ last.returned.value = <<>>
    /\ (last.returned.op = "scrobbleBatch" /\ NoFailedIndex(last.returned)) =>
           /\ last.returned.status = "resolved"
           /\ last.returned.error = "none"
           /\ Pending(last.returned.st) = {}
    /\ \A i \in 1..Len(dispatches) :
           dispatches[i].op = "scrobbleBatch" =>
               /\ dispatches[i].status = "pending"
               /\ Pending(dispatches[i].st) # {}

\* Three bound scrobblers, none reports a failed index.
C14_Witness ==
    /\ last.returned.op = "scrobbleBatch"
    /\ last.returned.scrobblers = registeredScrobblers
    /\ \A b \in Registered : last.returned.st[b] = "resolved"
    /\ NoFailedIndex(last.returned)
    /\ last.returned.status = "resolved"

\* --------------------------------------------------------------------- C15
\* C15: when every pending call and query settles at some time, every
\* dispatch that was started and every bindAllScrobblers that was started
\* returns to its caller: at some time no call is left pending and no
\* bindAllScrobblers is in its loop, and a dispatch whose last call settled
\* has given its caller a value or an error, with that step or (a rejected
\* dispatch) before, and a bindAllScrobblers that left its loop has returned
\* the array.
Removed(ds, i) == SubSeq(ds, 1, i - 1) \o SubSeq(ds, i + 1, Len(ds))

DispatchEndsReturned ==
    Len(dispatches') < Len(dispatches) =>
        \E i \in 1..Len(dispatches) :
            /\ dispatches' = Removed(dispatches, i)
            /\ \/ dispatches[i].status = "rejected"
               \/ /\ last'.returned.op = dispatches[i].op
                  /\ last'.returned.scrobblers = dispatches[i].scrobblers
                  /\ last'.returned.status \in {"resolved", "rejected"}

BindAllEndsReturned ==
    (bindAll.pc = "getSession" /\ bindAll'.pc = "idle") =>
        /\ last'.bindAllReturned.pc = "done"
        /\ last'.bindAllReturned.returned = boundScrobblers'

C15_EveryCallReturns ==
    /\ <>[](dispatches = <<>> /\ bindAll.pc = "idle")
    /\ [][DispatchEndsReturned /\ BindAllEndsReturned]_vars

\* A scrobble over three scrobblers has returned, nothing is left pending.
C15_Witness ==
    /\ last.returned.op = "scrobble"
    /\ last.returned.scrobblers = registeredScrobblers
    /\ last.returned.status = "resolved"
    /\ dispatches = <<>>
    /\ bindAll.pc = "idle"

\* --------------------------------- the catch of Promise.all in scrobbleBatch
\* The handler at 155-166 runs when Promise.all(promises) rejects, that is
\* when the catch handler of a scrobbler's call (150-152) has thrown. The
\* service's own calls never get there (getId() of a registered scrobbler
\* does not throw), so the handler is applied to the joins it could be
\* given: a scrobbleBatch over an array of distinct registered scrobblers in
\* which at least one handler has thrown err, the other calls having
\* resolved with a report or having been caught and stored.
BoundArrays ==
    {a \in UNION {[1..n -> Registered] : n \in 1..Len(registeredScrobblers)} :
        \A i, j \in 1..Len(a) : i # j => a[i] # a[j]}

rejectedJoin(a, st, reports, err) ==
    [op |-> "scrobbleBatch",
     scrobblers |-> a,
     issued |-> issuedCalls(a),
     outcome |-> [b \in Range(a) |-> "none"],
     st |-> st,
     reports |-> [b \in Range(a) |->
                     IF st[b] = "resolved" THEN reports[b] ELSE <<>>],
     erroredScrobbles |-> {<<getId(b), TypeError>> :
                              b \in {x \in Range(a) : st[x] = "caught"}},
     status |-> "pending",
     value |-> <<>>,
     error |-> err]

\* Mutant of catchAggregate: a report is built whatever erroredScrobbles holds.
catchAggregate_AlwaysReports(d) ==
    [d EXCEPT !.status = "resolved", !.value = d.erroredScrobbles,
              !.error = "none"]

\* The handler: with nothing stored it throws err again (156-158); otherwise
\* it builds a ScrobbleBatchResult and iterates the erroredScrobbles object
\* with for...of (160-163), which throws a TypeError.
catchAggregate(d) ==
    IF d.erroredScrobbles = {}
    THEN [d EXCEPT !.status = "rejected"]
    ELSE [d EXCEPT !.status = "rejected", !.error = TypeError]

scrobbleBatchCatch ==
    /\ Len(dispatches) = 1
    /\ dispatches[1].op = "scrobbleBatch"
    /\ dispatches[1].status = "pending"
    /\ \E b \in DOMAIN dispatches[1].st : dispatches[1].st[b] = "thrown"
    /\ dispatches' = <<>>
    /\ last' = [NoChange EXCEPT
                   !.op = "scrobbleBatchCatch",
                   !.result = dispatches[1].error,
                   !.before = boundScrobblers,
                   !.started = dispatches[1],
                   !.returned = catchAggregate(dispatches[1])]
    /\ UNCHANGED <<batch, boundScrobblers, bindAll, calls, bindAlls, ops>>

InitAggregate ==
    /\ bindAll = BindAllIdle
    /\ calls = 0
    /\ bindAlls = 0
    /\ ops = 0
    /\ last = NoChange
    /\ batch = BatchIdle(<<>>, 1)
    /\ \E a \in BoundArrays :
       \E st \in [Range(a) -> {"resolved", "caught", "thrown"}] :
       \E reports \in [Range(a) -> Reports] :
       \E err \in {Fault, TypeError} :
           /\ \E b \in Range(a) : st[b] = "thrown"
           /\ boundScrobblers = a
           /\ dispatches = <<rejectedJoin(a, st, reports, err)>>

NextAggregate == scrobbleBatchCatch

SpecAggregate == InitAggregate /\ [][NextAggregate]_vars

\* --------------------------------------------------------------------- C16
\* C16: when the Promise.all of scrobbleBatch rejects with an error and
\* erroredScrobbles holds nothing, scrobbleBatch rejects with that very
\* error: it does not resolve, and no failure report takes the error's place.
C16_AggregationFault ==
    (/\ last.op = "scrobbleBatchCatch"
     /\ last.started.erroredScrobbles = {}) =>
        /\ last.returned.status = "rejected"
        /\ last.returned.error = last.result
        /\ last.returned.error = last.started.error
        /\ last.returned.value = <<>>

\* Of three scrobblers one handler threw, the others reported; nothing stored.
C16_Witness ==
    /\ last.op = "scrobbleBatchCatch"
    /\ Len(last.started.scrobblers) = 3
    /\ last.started.erroredScrobbles = {}
    /\ last.result = Fault
    /\ last.returned.status = "rejected"
    /\ last.returned.error = Fault

\* --------------------------------------------------------------------- C17
\* C17: the list a scrobbler's scrobbleBatch resolves with is in ascending
\* order of the indices and holds no index twice, whatever the order the
\* chunk requests settled in.
C17_AscendingIndices ==
    batch.pc = "resolved" =>
        \A i, j \in 1..Len(batch.value) :
            i < j => batch.value[i] < batch.value[j]

\* --------------------------------------------------------------------- C18
\* C18: unbindScrobbler(b) removes no scrobbler but b: the scrobblers that
\* were bound and are not b are still bound afterwards, in their order; for
\* every argument, also an object that is none of the bound ones but has the
\* label of one of them.
C18_UnbindRemovesOnlyArgument ==
    (\/ last.op = "unbind"
     \/ last.op = "processErrorResult" /\ last.isReady = "false") =>
        Without(boundScrobblers, last.scrobbler)
            = Without(last.before, last.scrobbler)

\* --------------------------------------------------------------------- C19
\* C19: when the ERROR_AUTH of one scrobbler is handled twice with
\* isReadyForGrantAccess() answering false (two dispatches in flight over
\* it), the first handler removes the scrobbler and nothing else, the second
\* finds it not bound, reports that and removes nothing; and the dispatch
\* that returns with either step (no call of it ending in a thrown error)
\* resolves with ERROR_AUTH at the scrobbler's position.
NotReadyHandled ==
    /\ last.op = "processErrorResult"
    /\ last.result = ERROR_AUTH
    /\ last.isReady = "false"

IsPrefix(a, b) == Len(a) <= Len(b) /\ SubSeq(b, 1, Len(a)) = a

BindAllStep == <<bindAll.pc, bindAll.i>>' # <<bindAll.pc, bindAll.i>>

C20_BindAllOnlyAdds ==
    [][BindAllStep =>
          /\ IsPrefix(boundScrobblers, boundScrobblers')
          /\ last'.log = "warn:unable-to-bind" =>
                 boundScrobblers' = boundScrobblers
          /\ last'.bindAllReturned.pc = "done" =>
                 last'.bindAllReturned.returned = boundScrobblers']_vars

\* ListenBrainz is bound, its getSession() is the last one and fails:
\* bindAllScrobblers returns with ListenBrainz still bound.
C20_Witness ==
    /\ last.bindAllReturned.pc = "done"
    /\ last.log = "warn:unable-to-bind"
    /\ "listenbrainz" \notin last.bindAllReturned.succeeded
    /\ "listenbrainz" \in Range(boundScrobblers)
    /\ "listenbrainz" \in Range(last.bindAllReturned.returned)

\* --------------------------------------------------------------------- C21
\* C21: the service's scrobbleBatch does not change boundScrobblers: no step
\* of it (its start, a scrobbler's scrobbleBatch resolving with no failed
\* index or with some, or rejecting, with ERROR_AUTH too) removes, adds or
\* moves a scrobbler; no call of it waits for isReadyForGrantAccess(), and
\* no step of it is a processErrorResult.
BatchPending ==
    {<<d, b>> \in (1..Len(dispatches)) \X Registered :
        /\ dispatches[d].op = "scrobbleBatch"
        /\ b \in Pending(dispatches[d].st)}

BatchStep ==
    \/ Cardinality(BatchPending') # Cardinality(BatchPending)
    \/ last'.started.op = "scrobbleBatch"
    \/ last'.returned.op = "scrobbleBatch"

C21_BatchKeepsBoundSet ==
    /\ [](\A i \in 1..Len(dispatches) :
              dispatches[i].op = "scrobbleBatch" =>
                  \A b \in DOMAIN dispatches[i].st :
                      dispatches[i].st[b] \notin {"isReady", "thrown"})
    /\ [][BatchStep =>
              /\ boundScrobblers' = boundScrobblers
              /\ last'.op # "processErrorResult"]_vars

\* Last.fm's scrobbleBatch rejected with ERROR_AUTH, Libre.fm's reported a
\* failed index: the call has returned and both are still bound.
C21_Witness ==
    /\ last.returned.op = "scrobbleBatch"
    /\ last.returned.scrobblers = <<"lastfm", "librefm">>
    /\ <<"lastfm", ERROR_AUTH>> \in last.returned.erroredScrobbles
    /\ last.returned.reports["librefm"] = <<0>>
    /\ boundScrobblers = <<"lastfm", "librefm">>

====
